---------------------------- MODULE Spec2Model ----------------------------
(***************************************************************************)
(* A model of ai_c_tutor.py: the curriculum, the per-user progress file,   *)
(* the Streamlit session state and the button handlers of the page.        *)
(*                                                                         *)
(* Streamlit runs the whole script again on every interaction, so every    *)
(* action below is one run of the script: the prologue (lines 150-177),    *)
(* the handler of the widget that was used, and the st.rerun() that the    *)
(* handler ends with, where it has one.                                    *)
(*                                                                         *)
(* A Python dict is modelled as the sequence of its <<key, value>> items   *)
(* in insertion order; a file holds the JSON text of such a dict, modelled *)
(* as the sequence of its members <<key, "true" | "false">>.               *)
(*                                                                         *)
(* Specifications:                                                         *)
(*   Spec        one session, every handler but Export Log, the service    *)
(*               answering, failing or unreachable                         *)
(*   SpecStore   load_progress, save_progress, reset_progress and the      *)
(*               percentage called directly                                *)
(*   SpecIO      the page when a write of the progress file fails          *)
(*   SpecExport  the page with Export Log and the transcript log           *)
(*   SpecFlight  Teach Me and Regenerate with the request as its own step  *)
(*   SpecCache   the page with answers that depend on the prompt           *)
(*   SpecTwo     two sessions of one user, Mark Done as load then save     *)
(***************************************************************************)
EXTENDS Integers, Sequences, FiniteSets, TLC

(***************************************************************************)
(* Bounds of the model.  The curriculum of the program is cut to the first *)
(* two entries of C_DOMAINS ("None", which stands for the core topics, and *)
(* one domain), to the first MaxCore core topics and to the first          *)
(* MaxDomainTopics topics of the domain.                                   *)
(***************************************************************************)
MaxCore == 3

MaxDomainTopics == 1

\* the most entries the transcript log holds
MaxLog == 2

Min(a, b) == IF a < b THEN a ELSE b

Prefix(seq, n) == SubSeq(seq, 1, Min(n, Len(seq)))

Range(seq) == {seq[i] : i \in DOMAIN seq}

(***************************************************************************)
(* Curriculum (lines 25-86).                                               *)
(***************************************************************************)
CORE_C_TOPICS ==
    Prefix(<< "C Setup: GCC, IDEs (VS Code, Code::Blocks), CLI Compilation",
              "Data Types and Variables",
              "Operators (Arithmetic, Logical, Bitwise)",
              "Control Flow (if, else, switch)",
              "Loops (for, while, do-while)",
              "Functions and Recursion",
              "Arrays and Strings",
              "Pointers and Dynamic Memory",
              "Structures and Unions",
              "File Handling",
              "Header Files and Modular C",
              "Makefile and Compilation Units",
              "Preprocessor Directives",
              "Command Line Arguments",
              "Debugging with GDB and Valgrind" >>, MaxCore)

\* list(C_DOMAINS.keys()), in the order of the dict literal: "None",
\* "Systems Programming", "Embedded Systems", "Operating Systems",
\* "Reverse Engineering", "Game Development", "DSA in C"; the model keeps
\* the first two
DomainNames == << "None", "Systems Programming" >>

C_DOMAINS(d) ==
    Prefix(CASE d = "None" -> << >>
             [] d = "Systems Programming" ->
                  << "Processes and Forking", "Signals and Pipes",
                     "Sockets (TCP/UDP Basics)", "Multithreading with pthreads",
                     "Daemon Processes and IPC" >>
             [] d = "Embedded Systems" ->
                  << "Bitwise Operations for Port Manipulation",
                     "Microcontroller Programming (e.g., Arduino)",
                     "Interrupt Handling", "Timer and Delay Logic",
                     "Serial Communication (UART)" >>
             [] d = "Operating Systems" ->
                  << "Process Scheduling Concepts", "Virtual Memory and Paging",
                     "Writing a Shell", "Lexers and Parsers (Flex & Bison)",
                     "Toy Compiler and File System Simulator" >>
             [] d = "Reverse Engineering" ->
                  << "Buffer Overflow and Stack Smashing",
                     "Format String Vulnerabilities",
                     "Binary Exploitation with GDB", "Shellcode Basics" >>
             [] d = "Game Development" ->
                  << "Graphics with SDL2", "Game Loops and Timers",
                     "Collision Detection", "2D Game Physics",
                     "Sound Integration (SDL_Mixer)" >>
             [] d = "DSA in C" ->
                  << "Linked Lists and Trees", "Stacks and Queues",
                     "Graphs (DFS, BFS)", "Sorting and Searching Algorithms",
                     "Hashing and Map Implementation" >>,
           MaxDomainTopics)

\* lines 155-158
ROADMAP(d) == IF d = "None" THEN CORE_C_TOPICS ELSE C_DOMAINS(d)

Domains == Range(DomainNames)

AllTopics == UNION {Range(ROADMAP(d)) : d \in Domains}

(***************************************************************************)
(* Python dicts as item sequences.                                         *)
(***************************************************************************)
Keys(dict) == {dict[i][1] : i \in DOMAIN dict}

\* dict.get(key, default)
DictGet(dict, key, default) ==
    IF key \in Keys(dict)
    THEN dict[CHOOSE i \in DOMAIN dict : dict[i][1] = key][2]
    ELSE default

\* dict[key] = value: in place for a key the dict has, appended otherwise
DictSet(dict, key, value) ==
    IF key \in Keys(dict)
    THEN [i \in DOMAIN dict |->
            IF dict[i][1] = key THEN <<key, value>> ELSE dict[i]]
    ELSE Append(dict, <<key, value>>)

\* {topic: False for topic in topics}
AllFalse(topics) == [i \in DOMAIN topics |-> <<topics[i], FALSE>>]

\* the mapping a dict denotes (dict equality in Python ignores the order)
AsMap(dict) == [k \in Keys(dict) |-> DictGet(dict, k, FALSE)]

(***************************************************************************)
(* JSON text of a progress dict (json.dump, json.load).                    *)
(***************************************************************************)
\* mutant: the values written as Python prints them
json_dump_str(dict) ==
    [i \in DOMAIN dict |->
        <<dict[i][1], IF dict[i][2] THEN "True" ELSE "False">>]

json_dump(dict) ==
    [i \in DOMAIN dict |->
        <<dict[i][1], IF dict[i][2] THEN "true" ELSE "false">>]

json_load(text) ==
    [i \in DOMAIN text |-> <<text[i][1], text[i][2] = "true">>]

(***************************************************************************)
(* The progress files (lines 91-111).  NoFile: os.path.exists is false.    *)
(***************************************************************************)
Users == {"alice", "bob"}

\* the names typed into the login form of a session, already stripped
LoginNames == {"alice", ""}

NoFile == << <<"NoFile">> >>

\* a file of zero bytes: what open(path, "w") leaves when the write after
\* it fails
EmptyFile == << <<"EmptyFile">> >>

USER_DIR == "user_data_c"

\* os.path.join(USER_DIR, f"{username}_progress.json")
get_user_file(username) == USER_DIR \o "/" \o username \o "_progress.json"

Paths == {get_user_file(u) : u \in Users}

\* the transcript log of line 215, in the working directory
LogFile == "learning_log_c.txt"

\* line 216: the pieces of the text written for one export
LogEntry(concept, explanation) ==
    << "\n\n---\n", concept, "\n", explanation, "\n" >>

\* the entries of the log (none when the file does not exist)
LogEntries(fs) == IF fs[LogFile] = NoFile THEN << >> ELSE fs[LogFile]

\* mutant: the log opened with mode "w"
log_write_truncating(fs, concept, explanation) ==
    [fs EXCEPT ![LogFile] = << LogEntry(concept, explanation) >>]

\* lines 215-216: open(..., "a") creates the file or keeps what it holds,
\* and the write goes to its end
log_write(fs, concept, explanation) ==
    [fs EXCEPT ![LogFile] =
        Append(LogEntries(fs), LogEntry(concept, explanation))]

\* line 102: json.load raises JSONDecodeError on a text that is not JSON
json_load_raises(text) == text = EmptyFile

\* load_progress(topics, username) raises: the file exists and is not JSON
load_progress_raises(username, fs) ==
    /\ fs[get_user_file(username)] # NoFile
    /\ json_load_raises(fs[get_user_file(username)])

\* mutant: the stored dict returned as it is
load_progress_unfiltered(topics, username, fs) ==
    LET path == get_user_file(username) IN
    IF fs[path] # NoFile THEN json_load(fs[path]) ELSE AllFalse(topics)

\* load_progress(topics, username), reading the directory fs
load_progress(topics, username, fs) ==
    LET path == get_user_file(username) IN
    IF fs[path] # NoFile
    THEN LET data == json_load(fs[path]) IN
         [i \in DOMAIN topics |->
             <<topics[i], DictGet(data, topics[i], FALSE)>>]
    ELSE AllFalse(topics)

\* save_progress(progress, username): the directory after the write
save_progress(progress, username, fs) ==
    [fs EXCEPT ![get_user_file(username)] = json_dump(progress)]

\* save_progress(progress, username) when the file system fails: "open",
\* open(path, "w") raises PermissionError and the file is as it was;
\* "write", open has truncated the file and the write (json.dump, or the
\* flush when the with block closes the file) raises OSError
SaveFaults == {"open", "write"}

SaveError(fault) == IF fault = "open" THEN "PermissionError" ELSE "OSError"

save_progress_fails(progress, username, fs, fault) ==
    IF fault = "open" THEN fs
    ELSE [fs EXCEPT ![get_user_file(username)] = EmptyFile]

\* mutant: the all-false record is built and not saved
reset_progress_unsaved(topics, username, fs) == fs

\* reset_progress(topics, username)
reset_progress(topics, username, fs) ==
    save_progress(AllFalse(topics), username, fs)

\* lines 163-165: int((completed / total) * 100); for the totals of the
\* model (and every total up to 40) the float product truncates to the
\* integer quotient; total = 0 raises ZeroDivisionError.
Completed(progress) == Cardinality({i \in DOMAIN progress : progress[i][2]})

percent(progress, topics) ==
    LET completed == Completed(progress)
        total == Len(topics)
    IN IF total = 0 THEN [raised |-> "ZeroDivisionError"]
       ELSE [value |-> (completed * 100) \div total]

(***************************************************************************)
(* The completion service (lines 116-131).  A response is what             *)
(* requests.post returns, or the exception it raises when the network      *)
(* fails.  CrossMark stands for the character U+274C of line 131.          *)
(***************************************************************************)
CrossMark == "(U+274C)"

ErrorText(status_code, text) ==
    CrossMark \o " Error " \o ToString(status_code) \o ": " \o text

OkResponse == [status_code |-> 200, content |-> "generated text"]

ErrorResponse == [status_code |-> 500, text |-> "rate limited"]

NetworkFailure == [raised |-> "ConnectionError"]

Responses == {OkResponse, ErrorResponse, NetworkFailure}

Raises(res) == "raised" \in DOMAIN res

\* the instruction of lines 117-121: quiz=True, example=True or neither
Modes == {"explain", "example", "quiz"}

\* the value get_explanation(concept, quiz, example) returns for a response
\* that is not an exception; the prompt (concept, mode) goes out in the request
get_explanation(concept, mode, res) ==
    [text |-> IF res.status_code = 200 THEN res.content
              ELSE ErrorText(res.status_code, res.text)]

Request(concept, mode) == [concept |-> concept, mode |-> mode]

\* lines 117-125: the content of the user message
Prompt(concept, mode) ==
    (CASE mode = "quiz" ->
            "Create a multiple choice quiz (3-4 options) with correct answer for:"
       [] mode = "example" ->
            "Give a real-world example with code and explanation for:"
       [] OTHER ->
            "Explain the C programming concept clearly with code examples.")
    \o " " \o concept

\* a 200 response of a service that answers the prompt it was sent
AnswerTo(concept, mode) ==
    [status_code |-> 200, content |-> "answer to: " \o Prompt(concept, mode)]

Answers == {AnswerTo(t, mode) : t \in AllTopics, mode \in Modes}

(***************************************************************************)
(* State.                                                                  *)
(*   files          the directory USER_DIR: path -> JSON text or NoFile    *)
(*   session_state  per browser session: st.session_state and the value of *)
(*                  the domain selectbox                                   *)
(*   run            per session, the outcome of its last interaction: the  *)
(*                  line at which the script stopped on an uncaught        *)
(*                  exception (0: it ran to its end), the exception, the   *)
(*                  completion requests issued, the local `progress` and   *)
(*                  whether line 233 showed the all-done notice; `op`      *)
(*                  names the widget that was used                         *)
(*                  A run that waits in requests.post (line 128) has the   *)
(*                  line of the get_explanation call as `at`, no exception *)
(*                  and the request it sent.                               *)
(*   call           the last call made directly on the progress store      *)
(***************************************************************************)
VARIABLES files, session_state, run, call

vars == <<files, session_state, run, call>>

Sessions == {1}

\* a key that st.session_state does not hold
NoKey == "<no key>"

Absent == [absent |-> TRUE]

None == [none |-> TRUE]

IsText(v) == "text" \in DOMAIN v

NoCall == [op |-> "none"]

\* `trigger` is the button pressed while the script was running, which the
\* Streamlit runtime holds for the run it starts next
NewSession ==
    [username |-> NoKey, domain |-> DomainNames[1], selected_concept |-> NoKey,
     explanation |-> Absent, quiz |-> Absent, example |-> Absent,
     trigger |-> NoKey]

\* mutant: the completed topics are not filtered out
available_concepts_all(roadmap, progress) == roadmap

\* line 180
available_concepts(roadmap, progress) ==
    SelectSeq(roadmap, LAMBDA c : ~DictGet(progress, c, FALSE))

\* list.index, 1-based
Index(seq, x) == CHOOSE i \in DOMAIN seq : seq[i] = x

\* What a run of the script on session state st and directory fs leaves in
\* `run` when it stops at line `at` (0: at its end) after lines 160-173.
\* The run stops at line 160 when load_progress raises.
RunRecord(op, st, fs, at, raised, requests) ==
    LET progress == load_progress(ROADMAP(st.domain), st.username, fs)
        pct == percent(progress, ROADMAP(st.domain))
    IN IF load_progress_raises(st.username, fs)
       THEN [op |-> op, at |-> 160, raised |-> "JSONDecodeError",
             requests |-> << >>, progress |-> << >>, percent |-> 0,
             all_done |-> FALSE]
       ELSE IF "raised" \in DOMAIN pct
       THEN [op |-> op, at |-> 165, raised |-> pct.raised, requests |-> << >>,
             progress |-> progress, percent |-> 0, all_done |-> FALSE]
       ELSE [op |-> op, at |-> at, raised |-> raised, requests |-> requests,
             progress |-> progress, percent |-> pct.value,
             all_done |-> at = 0 /\ st.selected_concept = NoKey]

\* One run of the script with no button pressed, from line 140 to the end.
\* Line 193 raises AttributeError when a concept is selected and no
\* explanation was ever stored; line 233 shows the all-done notice when no
\* concept is selected.
ScriptRun(op, st, fs, requests) ==
    IF st.username = NoKey
    THEN [op |-> op, at |-> 0, raised |-> "", requests |-> requests,
          progress |-> << >>, percent |-> 0, all_done |-> FALSE]
    ELSE IF st.selected_concept # NoKey /\ st.explanation = Absent
    THEN RunRecord(op, st, fs, 193, "AttributeError", requests)
    ELSE RunRecord(op, st, fs, 0, "", requests)

\* a run that an exception raised at line `at` ended
Aborted(op, st, fs, at, raised, requests) ==
    RunRecord(op, st, fs, at, raised, requests)

LoggedIn(s) == session_state[s].username # NoKey

\* the widget of line `line` is on the page of session s
Rendered(s, line) ==
    /\ session_state[s].username # NoKey
    /\ run[s].at = 0 \/ run[s].at > line

\* line 160 of a run of session s returns a record
Readable(s) == ~load_progress_raises(session_state[s].username, files)

\* the block of line 189 is on the page
ConceptShown(s, line) ==
    /\ Rendered(s, line)
    /\ session_state[s].selected_concept # NoKey

Init ==
    /\ files = [p \in Paths \cup {LogFile} |-> NoFile]
    /\ session_state = [s \in Sessions |-> NewSession]
    /\ run = [s \in Sessions |-> ScriptRun("start", NewSession, files, << >>)]
    /\ call = NoCall

\* lines 140-148: the login form
Login(s, name) ==
    /\ session_state[s].username = NoKey
    /\ name # ""
    /\ LET st == [session_state[s] EXCEPT !.username = name] IN
       /\ session_state' = [session_state EXCEPT ![s] = st]
       /\ run' = [run EXCEPT ![s] = ScriptRun("login", st, files, << >>)]
    /\ UNCHANGED <<files, call>>

\* line 152: the domain selectbox
SelectDomain(s, d) ==
    /\ session_state[s].username # NoKey
    /\ d # session_state[s].domain
    /\ LET st == [session_state[s] EXCEPT !.domain = d] IN
       /\ session_state' = [session_state EXCEPT ![s] = st]
       /\ run' = [run EXCEPT ![s] = ScriptRun("domain", st, files, << >>)]
    /\ UNCHANGED <<files, call>>

\* lines 175-177
ResetProgress(s) ==
    /\ Rendered(s, 175)
    /\ Readable(s)
    /\ LET st == session_state[s]
           fs == reset_progress(ROADMAP(st.domain), st.username, files)
       IN /\ files' = fs
          /\ run' = [run EXCEPT ![s] = ScriptRun("reset", st, fs, << >>)]
    /\ UNCHANGED <<session_state, call>>

\* line 182: the options of the concept selectbox on the page of session s
Options(s) ==
    Range(available_concepts(ROADMAP(session_state[s].domain), run[s].progress))

\* lines 180-187: the concept selectbox holds t and Teach Me! is pressed
TeachMe(s, t, res) ==
    /\ Rendered(s, 183)
    /\ Readable(s)
    /\ t \in Options(s)
    /\ LET st == session_state[s]
           progress == load_progress(ROADMAP(st.domain), st.username, files)
           available == available_concepts(ROADMAP(st.domain), progress)
           selected == IF t \in Range(available) THEN t ELSE available[1]
           requests == << Request(selected, "explain") >>
       IN IF available = << >>
          THEN /\ run' = [run EXCEPT ![s] =
                     ScriptRun("teach", st, files, << >>)]
               /\ UNCHANGED session_state
          ELSE IF Raises(res)
          THEN /\ session_state' =
                     [session_state EXCEPT ![s].selected_concept = selected]
               /\ run' = [run EXCEPT ![s] =
                     Aborted("teach", [st EXCEPT !.selected_concept = selected],
                             files, 185, res.raised, requests)]
          ELSE LET st2 == [st EXCEPT
                             !.selected_concept = selected,
                             !.explanation =
                                 get_explanation(selected, "explain", res),
                             !.quiz = None,
                             !.example = None]
               IN /\ session_state' = [session_state EXCEPT ![s] = st2]
                  /\ run' = [run EXCEPT ![s] =
                        ScriptRun("teach", st2, files, requests)]
    /\ UNCHANGED <<files, call>>

\* lines 197-199
Regenerate(s, res) ==
    /\ ConceptShown(s, 197)
    /\ Readable(s)
    /\ LET st == session_state[s]
           concept == st.selected_concept
           progress == load_progress(ROADMAP(st.domain), st.username, files)
           requests == << Request(concept, "explain") >>
       IN IF Raises(res)
          THEN /\ run' = [run EXCEPT ![s] =
                     Aborted("regenerate", st, files, 198, res.raised,
                             requests)]
               /\ UNCHANGED session_state
          ELSE LET st2 == [st EXCEPT !.explanation =
                             get_explanation(concept, "explain", res)]
               IN /\ session_state' = [session_state EXCEPT ![s] = st2]
                  /\ run' = [run EXCEPT ![s] =
                        ScriptRun("regenerate", st2, files, requests)]
    /\ UNCHANGED <<files, call>>

\* lines 201-205
MarkDone(s) ==
    /\ ConceptShown(s, 201)
    /\ Readable(s)
    /\ LET st == session_state[s]
           concept == st.selected_concept
           progress == load_progress(ROADMAP(st.domain), st.username, files)
           marked == DictSet(progress, concept, TRUE)
           fs == save_progress(marked, st.username, files)
           st2 == [st EXCEPT !.selected_concept = NoKey]
       IN /\ files' = fs
          /\ session_state' = [session_state EXCEPT ![s] = st2]
          /\ run' = [run EXCEPT ![s] = ScriptRun("mark_done", st2, fs, << >>)]
    /\ UNCHANGED call

\* mutant: the index of the current concept, without the + 1
NextIndex_same(available, concept) ==
    IF concept \in Range(available) THEN Index(available, concept) ELSE 1

\* line 208: the index, 1-based, of the concept Next moves to
NextIndex(available, concept) ==
    IF concept \in Range(available) THEN Index(available, concept) + 1 ELSE 1

\* lines 207-212
NextConcept(s, res) ==
    /\ ConceptShown(s, 207)
    /\ Readable(s)
    /\ LET st == session_state[s]
           concept == st.selected_concept
           progress == load_progress(ROADMAP(st.domain), st.username, files)
           available == available_concepts(ROADMAP(st.domain), progress)
           idx == NextIndex(available, concept)
       IN IF idx <= Len(available)
          THEN LET requests == << Request(available[idx], "explain") >>
                   st2 == [st EXCEPT !.selected_concept = available[idx]]
                   st3 == [st2 EXCEPT !.explanation =
                             get_explanation(available[idx], "explain", res)]
               IN IF Raises(res)
                  THEN /\ session_state' = [session_state EXCEPT ![s] = st2]
                       /\ run' = [run EXCEPT ![s] =
                             Aborted("next", st2, files, 211, res.raised,
                                     requests)]
                  ELSE /\ session_state' = [session_state EXCEPT ![s] = st3]
                       /\ run' = [run EXCEPT ![s] =
                             ScriptRun("next", st3, files, requests)]
          ELSE /\ run' = [run EXCEPT ![s] = ScriptRun("next", st, files, << >>)]
               /\ UNCHANGED session_state
    /\ UNCHANGED <<files, call>>

\* mutant: Show Example clears the quiz as Teach Me does
ShowExample_clears_quiz(s, res) ==
    /\ ConceptShown(s, 220)
    /\ Readable(s)
    /\ LET st == session_state[s]
           concept == st.selected_concept
           requests == << Request(concept, "example") >>
       IN IF Raises(res)
          THEN /\ run' = [run EXCEPT ![s] =
                     Aborted("example", st, files, 221, res.raised, requests)]
               /\ UNCHANGED session_state
          ELSE LET st2 == [st EXCEPT
                             !.example =
                                 get_explanation(concept, "example", res),
                             !.quiz = None]
               IN /\ session_state' = [session_state EXCEPT ![s] = st2]
                  /\ run' = [run EXCEPT ![s] =
                        ScriptRun("example", st2, files, requests)]
    /\ UNCHANGED <<files, call>>

\* lines 220-221
ShowExample(s, res) ==
    /\ ConceptShown(s, 220)
    /\ Readable(s)
    /\ LET st == session_state[s]
           concept == st.selected_concept
           progress == load_progress(ROADMAP(st.domain), st.username, files)
           requests == << Request(concept, "example") >>
       IN IF Raises(res)
          THEN /\ run' = [run EXCEPT ![s] =
                     Aborted("example", st, files, 221, res.raised, requests)]
               /\ UNCHANGED session_state
          ELSE LET st2 == [st EXCEPT !.example =
                             get_explanation(concept, "example", res)]
               IN /\ session_state' = [session_state EXCEPT ![s] = st2]
                  /\ run' = [run EXCEPT ![s] =
                        ScriptRun("example", st2, files, requests)]
    /\ UNCHANGED <<files, call>>

\* lines 226-227
ShowQuiz(s, res) ==
    /\ ConceptShown(s, 226)
    /\ Readable(s)
    /\ LET st == session_state[s]
           concept == st.selected_concept
           progress == load_progress(ROADMAP(st.domain), st.username, files)
           requests == << Request(concept, "quiz") >>
       IN IF Raises(res)
          THEN /\ run' = [run EXCEPT ![s] =
                     Aborted("quiz", st, files, 227, res.raised, requests)]
               /\ UNCHANGED session_state
          ELSE LET st2 == [st EXCEPT !.quiz =
                             get_explanation(concept, "quiz", res)]
               IN /\ session_state' = [session_state EXCEPT ![s] = st2]
                  /\ run' = [run EXCEPT ![s] =
                        ScriptRun("quiz", st2, files, requests)]
    /\ UNCHANGED <<files, call>>

\* lines 214-217; st.success shows the message and the script goes on
ExportLog(s) ==
    /\ ConceptShown(s, 214)
    /\ Readable(s)
    /\ Len(LogEntries(files)) < MaxLog
    /\ LET st == session_state[s]
           fs == log_write(files, st.selected_concept, st.explanation.text)
       IN /\ files' = fs
          /\ run' = [run EXCEPT ![s] = ScriptRun("export", st, fs, << >>)]
    /\ UNCHANGED <<session_state, call>>

Next ==
    \E s \in Sessions :
        \/ \E name \in LoginNames : Login(s, name)
        \/ \E d \in Domains : SelectDomain(s, d)
        \/ ResetProgress(s)
        \/ \E t \in AllTopics, res \in Responses : TeachMe(s, t, res)
        \/ \E res \in Responses : Regenerate(s, res)
        \/ MarkDone(s)
        \/ \E res \in Responses : NextConcept(s, res)
        \/ \E res \in Responses : ShowExample(s, res)
        \/ \E res \in Responses : ShowQuiz(s, res)

Spec == Init /\ [][Next]_vars

(***************************************************************************)
(* The page when the file system fails.  save_progress has no handler for  *)
(* an exception of open or of the write, and load_progress none for one of *)
(* json.load, so each ends the run of the script at the line of the call.  *)
(***************************************************************************)
\* lines 150-160 of any run of a logged-in session whose file is not JSON:
\* json.load (line 102) raises and the run stops at line 160, whatever
\* widget was used
LoadFails(s) ==
    /\ LoggedIn(s)
    /\ ~Readable(s)
    /\ run' = [run EXCEPT ![s] =
                  ScriptRun("load_failed", session_state[s], files, << >>)]
    /\ UNCHANGED <<files, session_state, call>>

\* lines 201-203 when save_progress raises: line 202 has set the flag in
\* the local dict only, line 204 is not reached
MarkDoneFails(s, fault) ==
    /\ ConceptShown(s, 201)
    /\ Readable(s)
    /\ LET st == session_state[s]
           progress == load_progress(ROADMAP(st.domain), st.username, files)
           marked == DictSet(progress, st.selected_concept, TRUE)
       IN /\ files' = save_progress_fails(marked, st.username, files, fault)
          /\ run' = [run EXCEPT ![s] =
                        Aborted("mark_done", st, files, 203, SaveError(fault),
                                << >>)]
    /\ UNCHANGED <<session_state, call>>

\* lines 175-176 when the save_progress of reset_progress raises
ResetFails(s, fault) ==
    /\ Rendered(s, 175)
    /\ Readable(s)
    /\ LET st == session_state[s]
           topics == ROADMAP(st.domain)
       IN /\ files' = save_progress_fails(AllFalse(topics), st.username, files,
                                          fault)
          /\ run' = [run EXCEPT ![s] =
                        Aborted("reset", st, files, 176, SaveError(fault),
                                << >>)]
    /\ UNCHANGED <<session_state, call>>

\* the page with a completion service that answers and a file system that
\* may fail on a write
NextIO ==
    \E s \in Sessions :
        \/ \E name \in LoginNames : Login(s, name)
        \/ \E d \in Domains : SelectDomain(s, d)
        \/ ResetProgress(s)
        \/ \E fault \in SaveFaults : ResetFails(s, fault)
        \/ \E t \in AllTopics : TeachMe(s, t, OkResponse)
        \/ MarkDone(s)
        \/ \E fault \in SaveFaults : MarkDoneFails(s, fault)
        \/ LoadFails(s)

SpecIO == Init /\ [][NextIO]_vars

(***************************************************************************)
(* Teach Me and Regenerate in two steps: the run sends its request and     *)
(* waits in requests.post, then the answer arrives.  The script of a       *)
(* session runs in one thread.  A button pressed while the run waits is    *)
(* kept by the runtime (Trigger), which starts the next run with it as     *)
(* soon as the waiting run reaches a Streamlit call after requests.post    *)
(* has returned; that call is the assignment to st.session_state of line   *)
(* 185 or 198 or the st.subheader of line 191, depending on the version,   *)
(* so the answer is stored or dropped (`stored`).                          *)
(***************************************************************************)
\* session s waits for the answer to the request run[s].requests
Outstanding(s) ==
    /\ run[s].at # 0
    /\ run[s].raised = ""
    /\ run[s].requests # << >>

\* lines 183-185 up to requests.post
TeachMeSend(s, t) ==
    /\ Rendered(s, 183)
    /\ Readable(s)
    /\ ~Outstanding(s)
    /\ t \in Options(s)
    /\ LET st == session_state[s]
           progress == load_progress(ROADMAP(st.domain), st.username, files)
           available == available_concepts(ROADMAP(st.domain), progress)
           selected == IF t \in Range(available) THEN t ELSE available[1]
           st2 == [st EXCEPT !.selected_concept = selected]
       IN /\ available # << >>
          /\ session_state' = [session_state EXCEPT ![s] = st2]
          /\ run' = [run EXCEPT ![s] =
                RunRecord("teach", st2, files, 185, "",
                          << Request(selected, "explain") >>)]
    /\ UNCHANGED <<files, call>>

\* lines 197-198 up to requests.post
RegenerateSend(s) ==
    /\ ConceptShown(s, 197)
    /\ Readable(s)
    /\ ~Outstanding(s)
    /\ LET st == session_state[s] IN
       run' = [run EXCEPT ![s] =
                 RunRecord("regenerate", st, files, 198, "",
                           << Request(st.selected_concept, "explain") >>)]
    /\ UNCHANGED <<files, session_state, call>>

\* the button that started the waiting run is pressed again
Trigger(s) ==
    /\ Outstanding(s)
    /\ session_state[s].trigger = NoKey
    /\ session_state' = [session_state EXCEPT ![s].trigger = run[s].op]
    /\ UNCHANGED <<files, run, call>>

\* requests.post returns res or raises it: the rest of lines 185-187 or
\* 198-199 and, with a button held, the run that handles it, up to its
\* requests.post
Receive(s, res, stored) ==
    /\ Outstanding(s)
    /\ LET st == session_state[s]
           concept == st.selected_concept
           answered == [st EXCEPT !.explanation =
                          get_explanation(concept, "explain", res)]
           st2 == IF run[s].op = "teach"
                  THEN [answered EXCEPT !.quiz = None, !.example = None]
                  ELSE answered
       IN IF st.trigger = NoKey
          THEN /\ stored
               /\ IF Raises(res)
                  THEN /\ run' = [run EXCEPT ![s] =
                             Aborted(run[s].op, st, files, run[s].at,
                                     res.raised, run[s].requests)]
                       /\ UNCHANGED session_state
                  ELSE /\ session_state' = [session_state EXCEPT ![s] = st2]
                       /\ run' = [run EXCEPT ![s] =
                             ScriptRun(run[s].op, st2, files,
                                       run[s].requests)]
          ELSE LET st3 == [IF stored /\ ~Raises(res) THEN st2 ELSE st
                             EXCEPT !.trigger = NoKey]
               IN /\ session_state' = [session_state EXCEPT ![s] = st3]
                  /\ run' = [run EXCEPT ![s] =
                        RunRecord(st.trigger, st3, files, run[s].at, "",
                                  << Request(concept, "explain") >>)]
    /\ UNCHANGED <<files, call>>

NextFlight ==
    \E s \in Sessions :
        \/ \E name \in LoginNames : Login(s, name)
        \/ \E t \in AllTopics : TeachMeSend(s, t)
        \/ RegenerateSend(s)
        \/ Trigger(s)
        \/ \E res \in Responses, stored \in BOOLEAN : Receive(s, res, stored)
        \/ MarkDone(s)

SpecFlight == Init /\ [][NextFlight]_vars

(***************************************************************************)
(* The page with a service whose answers differ with the prompt: every     *)
(* response is the answer to the request the run has sent.                 *)
(***************************************************************************)
Served(s, res) ==
    \A i \in DOMAIN run'[s].requests :
        res = AnswerTo(run'[s].requests[i].concept, run'[s].requests[i].mode)

TeachMeServed(s, t) ==
    \E res \in Answers : TeachMe(s, t, res) /\ Served(s, res)

RegenerateServed(s) ==
    \E res \in Answers : Regenerate(s, res) /\ Served(s, res)

NextConceptServed(s) ==
    \E res \in Answers : NextConcept(s, res) /\ Served(s, res)

ShowExampleServed(s) ==
    \E res \in Answers : ShowExample(s, res) /\ Served(s, res)

ShowQuizServed(s) ==
    \E res \in Answers : ShowQuiz(s, res) /\ Served(s, res)

NextCache ==
    \E s \in Sessions :
        \/ \E name \in LoginNames : Login(s, name)
        \/ \E d \in Domains : SelectDomain(s, d)
        \/ \E t \in AllTopics : TeachMeServed(s, t)
        \/ RegenerateServed(s)
        \/ MarkDone(s)
        \/ NextConceptServed(s)
        \/ ShowExampleServed(s)
        \/ ShowQuizServed(s)

SpecCache == Init /\ [][NextCache]_vars

(***************************************************************************)
(* Two browser sessions on the core topics.  Each session has its own      *)
(* script thread and its own st.session_state; the threads share the       *)
(* directory.  The run that handles Mark Done is taken in its two file     *)
(* accesses: the load of line 160 (MarkDoneLoad), after which the run      *)
(* holds the record in its local `progress`, and lines 202-205             *)
(* (MarkDoneSave).  Between the two the run has `at` 160 and no exception. *)
(***************************************************************************)
TwoSessions == {1, 2}

InitTwo ==
    /\ files = [p \in Paths \cup {LogFile} |-> NoFile]
    /\ session_state = [s \in TwoSessions |-> NewSession]
    /\ run = [s \in TwoSessions |->
                ScriptRun("start", NewSession, files, << >>)]
    /\ call = NoCall

\* the run of session s has passed line 160 and not reached line 202
MarkingDone(s) ==
    /\ run[s].op = "mark_done"
    /\ run[s].at = 160
    /\ run[s].raised = ""

\* Mark Done is pressed: lines 150-160 of the run
MarkDoneLoad(s) ==
    /\ ConceptShown(s, 201)
    /\ Readable(s)
    /\ run' = [run EXCEPT ![s] =
                  RunRecord("mark_done", session_state[s], files, 160, "",
                            << >>)]
    /\ UNCHANGED <<files, session_state, call>>

\* mutant: the record written holds the flag of the marked topic only
MarkDoneSave_only_own(s) ==
    /\ MarkingDone(s)
    /\ LET st == session_state[s]
           marked == DictSet(AllFalse(ROADMAP(st.domain)),
                             st.selected_concept, TRUE)
           fs == save_progress(marked, st.username, files)
           st2 == [st EXCEPT !.selected_concept = NoKey]
       IN /\ files' = fs
          /\ session_state' = [session_state EXCEPT ![s] = st2]
          /\ run' = [run EXCEPT ![s] = ScriptRun("mark_done", st2, fs, << >>)]
    /\ UNCHANGED call

\* lines 202-205 of that run, on the record it loaded
MarkDoneSave(s) ==
    /\ MarkingDone(s)
    /\ LET st == session_state[s]
           marked == DictSet(run[s].progress, st.selected_concept, TRUE)
           fs == save_progress(marked, st.username, files)
           st2 == [st EXCEPT !.selected_concept = NoKey]
       IN /\ files' = fs
          /\ session_state' = [session_state EXCEPT ![s] = st2]
          /\ run' = [run EXCEPT ![s] = ScriptRun("mark_done", st2, fs, << >>)]
    /\ UNCHANGED call

NextTwo ==
    \E s \in TwoSessions :
        \/ \E name \in LoginNames : Login(s, name)
        \/ \E t \in AllTopics : TeachMe(s, t, OkResponse)
        \/ MarkDoneLoad(s)
        \/ MarkDoneSave(s)

SpecTwo == InitTwo /\ [][NextTwo]_vars

(***************************************************************************)
(* The page with the Export Log button, on the core topics: topics are     *)
(* taught, completed and exported; the service answers 200 or an error     *)
(* status.  No handler reads the log, so Next above leaves the button out. *)
(***************************************************************************)
NextExport ==
    \E s \in Sessions :
        \/ \E name \in LoginNames : Login(s, name)
        \/ \E t \in AllTopics, res \in {OkResponse, ErrorResponse} :
              TeachMe(s, t, res)
        \/ MarkDone(s)
        \/ ShowExample(s, OkResponse)
        \/ ExportLog(s)

SpecExport == Init /\ [][NextExport]_vars

(***************************************************************************)
(* The progress store on its own: load_progress, save_progress,            *)
(* reset_progress and the percentage of lines 163-165 applied to every     *)
(* topic list of the source (CORE_C_TOPICS and every value of C_DOMAINS,   *)
(* the empty list of "None" included), every user and every record over    *)
(* such a list.  `call` holds the last call: its arguments, its result and *)
(* `after`, the operation before it when that one had the same username,   *)
(* and `same`, whether that one had the same topic list.                   *)
(***************************************************************************)
TopicLists == {CORE_C_TOPICS} \cup {C_DOMAINS(d) : d \in Domains}

\* every dict with the keys of topics, in their order, and boolean values
BoolDicts(topics) ==
    {[i \in DOMAIN topics |-> <<topics[i], i \in done>>] :
        done \in SUBSET DOMAIN topics}

\* the records over the topic lists a ROADMAP can be (never the empty list)
Records == UNION {BoolDicts(topics) : topics \in TopicLists \ {<< >>}}

After(username) ==
    IF call.op # "none" /\ call.username = username THEN call.op ELSE "none"

Same(topics, username) == After(username) # "none" /\ call.topics = topics

StoreLoad(topics, username) ==
    /\ call' = [op |-> "load", username |-> username, topics |-> topics,
                progress |-> << >>,
                result |-> load_progress(topics, username, files),
                after |-> After(username), same |-> Same(topics, username)]
    /\ UNCHANGED <<files, session_state, run>>

StoreSave(progress, username) ==
    /\ files' = save_progress(progress, username, files)
    /\ call' = [op |-> "save", username |-> username, topics |-> << >>,
                progress |-> progress, result |-> << >>,
                after |-> After(username), same |-> FALSE]
    /\ UNCHANGED <<session_state, run>>

StoreReset(topics, username) ==
    /\ files' = reset_progress(topics, username, files)
    /\ call' = [op |-> "reset", username |-> username, topics |-> topics,
                progress |-> << >>, result |-> << >>,
                after |-> After(username), same |-> Same(topics, username)]
    /\ UNCHANGED <<session_state, run>>

\* lines 160-165 for a user and a topic list: load, then the percentage
StorePercent(topics, username) ==
    /\ LET progress == load_progress(topics, username, files) IN
       call' = [op |-> "percent", username |-> username, topics |-> topics,
                progress |-> progress,
                result |-> percent(progress, topics),
                after |-> After(username), same |-> Same(topics, username)]
    /\ UNCHANGED <<files, session_state, run>>

StoreNext ==
    \E username \in Users :
        \/ \E topics \in TopicLists : StoreLoad(topics, username)
        \/ \E progress \in Records : StoreSave(progress, username)
        \/ \E topics \in TopicLists : StoreReset(topics, username)
        \/ \E topics \in TopicLists : StorePercent(topics, username)

SpecStore == Init /\ [][StoreNext]_vars

(***************************************************************************)
(* Properties of the progress store, checked under SpecStore.              *)
(***************************************************************************)
\* the JSON text stored for username holds a member with this key
StoredKey(fs, username, key) ==
    /\ fs[get_user_file(username)] # NoFile
    /\ \E m \in Range(fs[get_user_file(username)]) : m[1] = key

\* the JSON text stored for username holds the member key: true
StoredTrue(fs, username, key) ==
    /\ fs[get_user_file(username)] # NoFile
    /\ <<key, "true">> \in Range(fs[get_user_file(username)])

\* the keys of a dict, in order
KeyList(dict) == [i \in DOMAIN dict |-> dict[i][1]]

\* C1: load(topics, user) returns a mapping whose keys are exactly `topics`:
\* a topic found in storage has its stored value, a topic not found there is
\* false, a stored key outside `topics` is left out, and without a stored
\* record the result is the all-false record.
C1_LoadMigrates ==
    call.op = "load" =>
        /\ KeyList(call.result) = call.topics
        /\ \A i \in DOMAIN call.result :
              call.result[i][2] =
                  StoredTrue(files, call.username, call.result[i][1])
        /\ files[get_user_file(call.username)] = NoFile =>
              call.result = AllFalse(call.topics)

\* C1 witness: a load over a topic list that misses a stored key and asks
\* for a key that is not stored, after a load has returned a stored true.
C1_Witness ==
    /\ call.op = "load"
    /\ \E k \in AllTopics :
          StoredKey(files, call.username, k) /\ k \notin Range(call.topics)
    /\ \E k \in Range(call.topics) : ~StoredKey(files, call.username, k)

\* C1 witness of the stored value: a load that returned a stored true
C1_WitnessStored ==
    /\ call.op = "load"
    /\ \E i \in DOMAIN call.result : call.result[i][2]

\* C7: load(topicsFor(T), U) right after reset(topicsFor(T), U) returns the
\* record that maps every topic of T to false, whatever was stored before.
C7_ResetThenLoad ==
    [][(/\ call.op = "reset"
        /\ call'.op = "load"
        /\ call'.username = call.username
        /\ call'.topics = call.topics)
       => (/\ call'.result = AllFalse(call.topics)
           /\ AsMap(call'.result) = [k \in Range(call.topics) |-> FALSE])]_vars

\* C7 witness: a load of a non-empty topic list right after the reset of
\* the same list for the same user
C7_Witness ==
    /\ call.op = "load"
    /\ call.after = "reset"
    /\ call.same
    /\ call.topics # << >>
    /\ call.result = AllFalse(call.topics)

\* a mapping restricted to the keys it has among `keys`
Restrict(map, keys) == [k \in DOMAIN map \cap keys |-> map[k]]

\* C8 as stated: load(topics, U) right after save(R, U) returns R
\* restricted to `topics`.
C8_SaveThenLoadRestricts ==
    [][(/\ call.op = "save"
        /\ call'.op = "load"
        /\ call'.username = call.username)
       => AsMap(call'.result) =
              Restrict(AsMap(call.progress), Range(call'.topics))]_vars

\* C8 amended: load(topics, U) right after save(R, U) returns, for every
\* topic of `topics`, the value R has for it, and false for a topic R lacks;
\* this is R restricted to `topics` when R has every topic of `topics`.
C8_SaveThenLoad ==
    [][(/\ call.op = "save"
        /\ call'.op = "load"
        /\ call'.username = call.username)
       => (/\ AsMap(call'.result) =
                 [k \in Range(call'.topics) |->
                     IF k \in Keys(call.progress)
                     THEN AsMap(call.progress)[k] ELSE FALSE]
           /\ Range(call'.topics) \subseteq Keys(call.progress) =>
                 AsMap(call'.result) =
                     Restrict(AsMap(call.progress), Range(call'.topics)))]_vars

\* C8 witness: a load right after a save for the same user, of a topic list
\* with a topic that the saved record lacks
C8_Witness ==
    /\ call.op = "load"
    /\ call.after = "save"
    /\ \E k \in Range(call.topics) : ~StoredKey(files, call.username, k)

\* a load right after a save for the same user that returned a saved true
C8_WitnessStored ==
    /\ call.op = "load"
    /\ call.after = "save"
    /\ \E i \in DOMAIN call.result : call.result[i][2]

Loaded(s) ==
    load_progress(ROADMAP(session_state[s].domain),
                  session_state[s].username, files)

\* a cached text is cleared: the key is absent or holds None
Cleared(v) == ~IsText(v)

\* C2: the record the session holds and the record written to the user's
\* file have exactly the topics of the selected domain as their keys, after
\* every step.
C2_KeysAreTopicSet ==
    [][\A s \in Sessions :
          session_state'[s].username # NoKey =>
             LET topics == Range(ROADMAP(session_state'[s].domain))
                 path == get_user_file(session_state'[s].username)
             IN /\ Keys(run'[s].progress) = topics
                /\ files'[path] # files[path] =>
                      Keys(files'[path]) = topics]_vars

\* C3: Mark Done on the current topic t stores t as true in the record and
\* in the user's file, leaves every other topic of the domain as it was,
\* and ends with no topic selected and explanation, example and quiz
\* cleared.
C3_MarkDone ==
    [][\A s \in Sessions :
          MarkDone(s) =>
             LET t == session_state[s].selected_concept
                 username == session_state[s].username
                 topics == Range(ROADMAP(session_state[s].domain))
             IN /\ DictGet(run'[s].progress, t, FALSE)
                /\ StoredTrue(files', username, t)
                /\ \A k \in topics \ {t} :
                      /\ DictGet(run'[s].progress, k, FALSE)
                            = DictGet(Loaded(s), k, FALSE)
                      /\ StoredTrue(files', username, k)
                            = DictGet(Loaded(s), k, FALSE)
                /\ session_state'[s].selected_concept = NoKey
                /\ Cleared(session_state'[s].explanation)
                /\ Cleared(session_state'[s].example)
                /\ Cleared(session_state'[s].quiz)]_vars

LaterIncomplete(roadmap, progress, concept) ==
    {j \in DOMAIN roadmap :
        /\ j > Index(roadmap, concept)
        /\ ~DictGet(progress, roadmap[j], FALSE)}

FirstIncompleteAfter(roadmap, progress, concept) ==
    roadmap[CHOOSE j \in LaterIncomplete(roadmap, progress, concept) :
               \A k \in LaterIncomplete(roadmap, progress, concept) : j <= k]

\* C5: Next, when the current topic is a not yet completed topic of the
\* domain and a not yet completed topic follows it, selects the first not
\* yet completed topic after it in the order of the domain and asks for the
\* explanation of exactly that topic.
C5_NextAdvances ==
    [][\A s \in Sessions :
          LET roadmap == ROADMAP(session_state[s].domain)
              concept == session_state[s].selected_concept
          IN (/\ run'[s].op = "next"
              /\ \E res \in Responses : NextConcept(s, res)
              /\ concept \in Range(roadmap)
              /\ ~DictGet(Loaded(s), concept, FALSE)
              /\ LaterIncomplete(roadmap, Loaded(s), concept) # {})
             => (/\ session_state'[s].selected_concept =
                       FirstIncompleteAfter(roadmap, Loaded(s), concept)
                 /\ run'[s].requests =
                       << Request(FirstIncompleteAfter(roadmap, Loaded(s),
                                                       concept),
                                  "explain") >>)]_vars

\* C5 witness: Next has moved from the first topic of a domain over a
\* completed second topic to the third and asked for its explanation
C5_Witness ==
    \E s \in Sessions :
        LET roadmap == ROADMAP(session_state[s].domain) IN
        /\ run[s].op = "next"
        /\ Len(roadmap) >= 3
        /\ session_state[s].selected_concept = roadmap[3]
        /\ DictGet(run[s].progress, roadmap[2], FALSE)
        /\ ~DictGet(run[s].progress, roadmap[1], FALSE)
        /\ run[s].requests = << Request(roadmap[3], "explain") >>

\* C6: Next, when the current topic is the last not yet completed topic or
\* is not among the not yet completed topics, ends with no topic selected,
\* issues no request and signals that no topic is left (the notice of line
\* 233 is the page's only such signal); the run does not crash.
C6_NextAtEnd ==
    [][\A s \in Sessions : \A res \in Responses :
          LET available ==
                  available_concepts(ROADMAP(session_state[s].domain),
                                     Loaded(s))
              concept == session_state[s].selected_concept
          IN (/\ NextConcept(s, res)
              /\ \/ concept \notin Range(available)
                 \/ Index(available, concept) = Len(available))
             => (/\ session_state'[s].selected_concept = NoKey
                 /\ run'[s].requests = << >>
                 /\ run'[s].at = 0
                 /\ run'[s].all_done)]_vars

\* the handlers that send a request, with the key the text is stored under
AsksFor(s, res, key) ==
    \/ key = "explanation" /\ \E t \in AllTopics : TeachMe(s, t, res)
    \/ key = "explanation" /\ Regenerate(s, res)
    \/ key = "explanation" /\ NextConcept(s, res)
    \/ key = "example" /\ ShowExample(s, res)
    \/ key = "quiz" /\ ShowQuiz(s, res)

\* C10: a failure of the completion service (a status other than 200, or a
\* network failure) on any request leaves the page with the concept shown,
\* no exception raised, the error message as the text of the requested key
\* (for status 500 and body "rate limited", the text of line 131) and the
\* Regenerate button on the page.
C10_ServiceErrorShown ==
    [][\A s \in Sessions : \A res \in Responses \ {OkResponse} :
       \A key \in {"explanation", "example", "quiz"} :
          (AsksFor(s, res, key) /\ run'[s].requests # << >>)
          => (/\ run'[s].raised = ""
              /\ run'[s].at = 0
              /\ IsText(session_state'[s][key])
              /\ res = ErrorResponse =>
                    session_state'[s][key].text
                        = "(U+274C) Error 500: rate limited"
              /\ session_state'[s].selected_concept # NoKey)]_vars

\* C13: Regenerate, with an explanation on the page, asks again for the
\* explanation of the selected topic, leaves that topic selected and
\* discards the cached example and quiz, so that both are absent after it.
C13_RegenerateDiscards ==
    [][\A s \in Sessions : \A res \in Responses :
          (Regenerate(s, res) /\ IsText(session_state[s].explanation))
          => (/\ session_state'[s].selected_concept
                    = session_state[s].selected_concept
              /\ run'[s].requests =
                    << Request(session_state[s].selected_concept,
                               "explain") >>
              /\ Cleared(session_state'[s].example)
              /\ Cleared(session_state'[s].quiz))]_vars

\* what Show Example and Give Me a Quiz both leave alone
C14_Frame(s) ==
    /\ session_state'[s].selected_concept = session_state[s].selected_concept
    /\ session_state'[s].explanation = session_state[s].explanation
    /\ IsText(session_state'[s].explanation)
    /\ session_state'[s].domain = session_state[s].domain
    /\ files' = files
    /\ run'[s].progress = run[s].progress

\* C14: Show Example (Give Me a Quiz), with an explanation on the page,
\* asks for the example (quiz) of the selected topic and stores what the
\* service returns under example (quiz) only: the selected topic, the
\* explanation, the quiz (example) and the progress record, in memory and
\* in the file, are as before, and the explanation is still there.
C14_ExampleQuizFrame ==
    [][\A s \in Sessions : \A res \in Responses :
          LET concept == session_state[s].selected_concept IN
          /\ (/\ run'[s].op = "example"
              /\ ShowExample(s, res)
              /\ IsText(session_state[s].explanation))
             => (/\ C14_Frame(s)
                 /\ session_state'[s].quiz = session_state[s].quiz
                 /\ run'[s].requests = << Request(concept, "example") >>
                 /\ session_state'[s].example =
                       IF Raises(res) THEN session_state[s].example
                       ELSE get_explanation(concept, "example", res))
          /\ (/\ run'[s].op = "quiz"
              /\ ShowQuiz(s, res)
              /\ IsText(session_state[s].explanation))
             => (/\ C14_Frame(s)
                 /\ session_state'[s].example = session_state[s].example
                 /\ run'[s].requests = << Request(concept, "quiz") >>
                 /\ session_state'[s].quiz =
                       IF Raises(res) THEN session_state[s].quiz
                       ELSE get_explanation(concept, "quiz", res))]_vars

\* C14 witness: Show Example has stored its text while an explanation and a
\* quiz text were cached and a topic of the domain was completed
C14_Witness ==
    \E s \in Sessions :
        /\ run[s].op = "example"
        /\ run[s].at = 0
        /\ IsText(session_state[s].example)
        /\ IsText(session_state[s].quiz)
        /\ IsText(session_state[s].explanation)
        /\ Completed(run[s].progress) > 0

\* C18: without a reset, a topic that the user's file gives as completed
\* for a domain is given as completed for that domain after every step:
\* no domain switch and no Mark Done in another domain loses it.
C18_CompletionKept ==
    [][\A s \in Sessions :
          (LoggedIn(s) /\ ~ResetProgress(s)) =>
             \A d \in Domains : \A t \in Range(ROADMAP(d)) :
                DictGet(load_progress(ROADMAP(d), session_state[s].username,
                                      files), t, FALSE)
                => DictGet(load_progress(ROADMAP(d),
                                         session_state[s].username, files'),
                           t, FALSE)]_vars

\* C20: on a page drawn to its end, the all-done notice of line 233 is
\* shown exactly when the loaded record marks every topic of the domain
\* completed.
C20_AllDoneNotice ==
    \A s \in Sessions :
        (LoggedIn(s) /\ run[s].at = 0) =>
            (run[s].all_done <=>
                \A i \in DOMAIN run[s].progress : run[s].progress[i][2])

\* C15: Export Log, with an explanation on the page, adds one entry with
\* the selected topic and the explanation text at the end of the log, keeps
\* every earlier entry as it was and changes nothing else: the session
\* state (topic, explanation, example, quiz), the loaded record and the
\* progress files are as before.
C15_ExportAppends ==
    [][\A s \in Sessions :
          (ExportLog(s) /\ IsText(session_state[s].explanation)) =>
             LET old == LogEntries(files)
                 new == LogEntries(files')
             IN /\ Len(new) = Len(old) + 1
                /\ SubSeq(new, 1, Len(old)) = old
                /\ new[Len(new)] =
                      LogEntry(session_state[s].selected_concept,
                               session_state[s].explanation.text)
                /\ \A path \in Paths : files'[path] = files[path]
                /\ session_state' = session_state
                /\ run'[s].progress = run[s].progress]_vars

\* C15 witness: an export has added a second entry, for another topic than
\* the first, while a topic was completed and an example cached
C15_Witness ==
    \E s \in Sessions :
        /\ run[s].op = "export"
        /\ Len(LogEntries(files)) = 2
        /\ LogEntries(files)[1][2] # LogEntries(files)[2][2]
        /\ Completed(run[s].progress) > 0
        /\ IsText(session_state[s].example)

(***************************************************************************)
(* Properties of the cached texts, checked under SpecCache.                *)
(***************************************************************************)
\* the text cached under a key was generated for concept
GeneratedFor(v, concept, mode) ==
    v = get_explanation(concept, mode, AnswerTo(concept, mode))

\* C17: whenever a topic is selected, the cached explanation, example and
\* quiz are each absent or the text generated for the selected topic: none
\* is carried over from a topic selected before.
C17_CacheOfSelectedTopic ==
    \A s \in Sessions :
        LET st == session_state[s] IN
        st.selected_concept # NoKey =>
            /\ IsText(st.explanation) =>
                  GeneratedFor(st.explanation, st.selected_concept, "explain")
            /\ IsText(st.example) =>
                  GeneratedFor(st.example, st.selected_concept, "example")
            /\ IsText(st.quiz) =>
                  GeneratedFor(st.quiz, st.selected_concept, "quiz")

(***************************************************************************)
(* Properties of two sessions of one user, checked under SpecTwo.          *)
(***************************************************************************)
\* C19: with two sessions of the same user on the same topics and no
\* reset, a topic that a Mark Done of either session has stored as true is
\* true in the user's file after every later step of either session.
C19_NoLostMarkDone ==
    [][\A t \in AllTopics : \A username \in Users :
          StoredTrue(files, username, t) =>
              StoredTrue(files', username, t)]_vars

\* C19 amended: the last write wins.  The file after a Mark Done holds the
\* marked topic as true and every other topic as the run loaded it at line
\* 160; no other step writes the file.  So a topic marked done stays true
\* unless a Mark Done of the other session that loaded the record before
\* that mark saves after it, and nothing is lost by a Mark Done whose load
\* still agrees with the file when it saves.
C19_LastWriteWins ==
    [][/\ \A s \in TwoSessions :
             MarkDoneSave(s) =>
                LET username == session_state[s].username
                    own == session_state[s].selected_concept
                    loaded == run[s].progress
                IN /\ StoredTrue(files', username, own)
                   /\ \A t \in AllTopics \ {own} :
                         StoredTrue(files', username, t)
                             = DictGet(loaded, t, FALSE)
                   /\ loaded = load_progress(ROADMAP(session_state[s].domain),
                                             username, files)
                      => \A t \in AllTopics :
                            StoredTrue(files, username, t)
                                => StoredTrue(files', username, t)
       /\ files' # files => \E s \in TwoSessions : MarkDoneSave(s)]_vars

\* C19 witness: each session has ended a Mark Done and both marks are in
\* the file
C19_Witness ==
    /\ \A s \in TwoSessions : run[s].op = "mark_done" /\ run[s].at = 0
    /\ \E username \in Users :
          Cardinality({t \in AllTopics : StoredTrue(files, username, t)}) = 2

\* a Mark Done run that holds a record older than the file: the file has a
\* topic as true that the record of the run has as false
C19_WitnessStale ==
    \E s \in TwoSessions :
        /\ MarkingDone(s)
        /\ \E t \in AllTopics :
              /\ StoredTrue(files, session_state[s].username, t)
              /\ ~DictGet(run[s].progress, t, FALSE)

(***************************************************************************)
(* Properties of the requests in flight, checked under SpecFlight.         *)
(***************************************************************************)
\* C16: a run of a session sends at most one request, so at most one is
\* outstanding, and a Teach Me or Regenerate pressed again while the
\* request for the topic is outstanding is ignored: when the answer
\* arrives no further request goes out for it.
C16_OneRequest ==
    [][\A s \in Sessions :
          /\ Len(run'[s].requests) <= 1
          /\ \A res \in Responses, stored \in BOOLEAN :
                (/\ session_state[s].trigger # NoKey
                 /\ Receive(s, res, stored))
                => ~Outstanding(s)']_vars

(***************************************************************************)
(* Properties of the page under file system failures, checked under SpecIO.*)
(***************************************************************************)
\* C11: when the user's file is corrupt, the load of a run degrades to the
\* all-false record of the domain, the run is not ended by an exception and
\* the Reset Progress button is on the page, so that reset can restore a
\* readable file.
C11_CorruptLoadDegrades ==
    [][\A s \in Sessions :
          LoadFails(s) =>
             /\ run'[s].raised = ""
             /\ run'[s].progress = AllFalse(ROADMAP(session_state[s].domain))
             /\ Rendered(s, 175)']_vars

\* C12: when the write of Mark Done or of Reset Progress fails, the run
\* shows the failure; after a failed Mark Done the topic is not shown as
\* completed, the user's file is as it was before and the topic is still
\* selected.
C12_FailedSaveSurfaced ==
    [][\A s \in Sessions : \A fault \in SaveFaults :
          /\ MarkDoneFails(s, fault) =>
                /\ run'[s].raised # ""
                /\ ~DictGet(run'[s].progress,
                            session_state[s].selected_concept, FALSE)
                /\ files' = files
                /\ session_state'[s].selected_concept
                      = session_state[s].selected_concept
          /\ ResetFails(s, fault) => run'[s].raised # ""]_vars

=============================================================================
